---- MODULE Spec2Model ----
(***************************************************************************)
(* Model of CurrencyConverter (src/currency_converter.py): the rate cache, *)
(* the two rate sources seen through their responses, and the operations   *)
(* get_exchange_rates, convert, get_rate, get_available_currencies and     *)
(* clear_cache.  One action is one whole call.  Numbers are integers: the   *)
(* source responses are drawn from values on which Value / Nominal is      *)
(* exact, so float division is integer division on them.                   *)
(***************************************************************************)
EXTENDS Integers, Sequences, FiniteSets, TLC

VARIABLES cache, cache_timestamps, now, nfetch, last

vars == <<cache, cache_timestamps, now, nfetch, last>>

\* ---------------------------------------------------------------- bounds
MaxTime == 5          \* the clock runs from 0 to MaxTime minutes
MaxFetches == 2       \* requests to Source A explored in one behaviour

\* ------------------------------------------------------- program constants
cache_duration == 5   \* timedelta(minutes=5)

\* ------------------------------------------------------------ input sets
Codes == {"USD", "usd", "EUR", "RUB", "ZZZ"}
Amounts == {3}

\* the <<from, to>> pairs convert and get_rate are called with: equal codes
\* (also up to case, RUB, and a code no source knows), and different codes
\* with a plain target, RUB as target or as source, a lower-case source,
\* an unknown target and an unknown source
Pairs ==
  { <<"USD", "USD">>, <<"usd", "USD">>, <<"RUB", "RUB">>, <<"ZZZ", "ZZZ">>,
    <<"USD", "EUR">>, <<"usd", "RUB">>, <<"EUR", "RUB">>, <<"RUB", "EUR">>,
    <<"USD", "ZZZ">>, <<"ZZZ", "EUR">> }

\* str.upper() on the codes of the model
Upper(c) == IF c = "usd" THEN "USD" ELSE c

EmptyFn == [c \in {} |-> 0]

\* A JSON body of Source A: an object without "rates", an object whose
\* "rates" is not a mapping (null), or an object with a rates mapping.
NoRatesBody == [kind |-> "norates", rates |-> EmptyFn]
BadRatesBody == [kind |-> "badrates", rates |-> EmptyFn]
TableBody(r) == [kind |-> "table", rates |-> r]
NoBody == [kind |-> "absent", rates |-> EmptyFn]

RatesA1 == [EUR |-> 2, RUB |-> 95]
RatesA2 == [EUR |-> 4, GBP |-> 7]

\* What requests.get + raise_for_status + response.json() can produce.
AResponses ==
  { [kind |-> "neterr", data |-> NoBody],
    [kind |-> "jsonerr", data |-> NoBody],
    [kind |-> "body", data |-> NoRatesBody],
    [kind |-> "body", data |-> BadRatesBody],
    [kind |-> "body", data |-> TableBody(RatesA1)],
    [kind |-> "body", data |-> TableBody(RatesA2)] }

\* Valute entries of Source B
ValUSD == [Value |-> 182, Nominal |-> 2]
ValEUR == [Value |-> 990, Nominal |-> 10]
ValBad == [Value |-> 182, Nominal |-> 0]

BResponses ==
  { [kind |-> "neterr", valute |-> EmptyFn],
    [kind |-> "novalute", valute |-> EmptyFn],
    [kind |-> "valute", valute |-> [USD |-> ValBad, EUR |-> ValEUR]],
    [kind |-> "valute", valute |-> [EUR |-> ValEUR]],
    [kind |-> "valute", valute |-> [USD |-> ValUSD, EUR |-> ValEUR]] }

NotAsked == [kind |-> "notasked", valute |-> EmptyFn]
NotAskedA == [kind |-> "notasked", data |-> NoBody]

\* ------------------------------------------------------------ return values
RetNone == [kind |-> "none", data |-> NoBody, num |-> 0, list |-> <<>>]
RetRaise == [kind |-> "raise", data |-> NoBody, num |-> 0, list |-> <<>>]
RetData(d) == [kind |-> "data", data |-> d, num |-> 0, list |-> <<>>]
RetNum(n) == [kind |-> "num", data |-> NoBody, num |-> n, list |-> <<>>]
RetList(s) == [kind |-> "list", data |-> NoBody, num |-> 0, list |-> s]

\* dict[key] = value
Put(d, k, v) == [x \in (DOMAIN d) \cup {k} |-> IF x = k THEN v ELSE d[x]]

\* _get_rub_rate_from_cbr: the patch, or None when anything goes wrong
PatchNone == [some |-> FALSE, rates |-> EmptyFn]
get_rub_rate_from_cbr(b) ==
  IF b.kind # "valute" THEN PatchNone
  ELSE IF \E c \in DOMAIN b.valute : b.valute[c].Nominal = 0 THEN PatchNone
  ELSE [some |-> TRUE,
        rates |-> [c \in (DOMAIN b.valute) \cap {"USD", "EUR"} |->
                     b.valute[c].Value \div b.valute[c].Nominal]]

\* Python truthiness of the Optional[Dict] patch
Truthy(p) == p.some /\ DOMAIN p.rates # {}

\* CacheHit with the comparison of line 20 turned round
CacheHit_Inverted(base, force) ==
  /\ ~force
  /\ base \in DOMAIN cache
  /\ base \in DOMAIN cache_timestamps
  /\ now - cache_timestamps[base] > cache_duration

\* CacheHit counting an entry of exactly cache_duration minutes as fresh
CacheHit_Inclusive(base, force) ==
  /\ ~force
  /\ base \in DOMAIN cache
  /\ base \in DOMAIN cache_timestamps
  /\ now - cache_timestamps[base] <= cache_duration

\* line 17-21: the cache answers
CacheHit(base, force) ==
  /\ ~force
  /\ base \in DOMAIN cache
  /\ base \in DOMAIN cache_timestamps
  /\ now - cache_timestamps[base] < cache_duration

\* line 29: Source B is asked
AsksB(data) == data.kind = "table" /\ "RUB" \in DOMAIN data.rates

\* Reconcile taking the patch entry of the other tracked currency
Reconcile_Swapped(base, data, b) ==
  LET rub_data == get_rub_rate_from_cbr(b) IN
  IF AsksB(data) /\ Truthy(rub_data)
  THEN IF Upper(base) = "USD" /\ "EUR" \in DOMAIN rub_data.rates
       THEN [data EXCEPT !.rates["RUB"] = rub_data.rates["EUR"]]
       ELSE IF Upper(base) = "EUR" /\ "USD" \in DOMAIN rub_data.rates
       THEN [data EXCEPT !.rates["RUB"] = rub_data.rates["USD"]]
       ELSE data
  ELSE data

\* Reconcile writing an empty rate when Source B gives no usable entry
Reconcile_Blanks(base, data, b) ==
  LET rub_data == get_rub_rate_from_cbr(b) IN
  IF AsksB(data)
  THEN IF Truthy(rub_data) /\ Upper(base) = "USD" /\ "USD" \in DOMAIN rub_data.rates
       THEN [data EXCEPT !.rates["RUB"] = rub_data.rates["USD"]]
       ELSE IF Truthy(rub_data) /\ Upper(base) = "EUR" /\ "EUR" \in DOMAIN rub_data.rates
       THEN [data EXCEPT !.rates["RUB"] = rub_data.rates["EUR"]]
       ELSE [data EXCEPT !.rates["RUB"] = 0]
  ELSE data

\* Reconcile applying the patch whatever the base is
Reconcile_AnyBase(base, data, b) ==
  LET rub_data == get_rub_rate_from_cbr(b) IN
  IF AsksB(data) /\ Truthy(rub_data)
  THEN IF Upper(base) # "EUR" /\ "USD" \in DOMAIN rub_data.rates
       THEN [data EXCEPT !.rates["RUB"] = rub_data.rates["USD"]]
       ELSE IF "EUR" \in DOMAIN rub_data.rates
       THEN [data EXCEPT !.rates["RUB"] = rub_data.rates["EUR"]]
       ELSE data
  ELSE data

\* line 29-35: the reconciliation of Source A's body with Source B's patch
Reconcile(base, data, b) ==
  LET rub_data == get_rub_rate_from_cbr(b) IN
  IF AsksB(data) /\ Truthy(rub_data)
  THEN IF Upper(base) = "USD" /\ "USD" \in DOMAIN rub_data.rates
       THEN [data EXCEPT !.rates["RUB"] = rub_data.rates["USD"]]
       ELSE IF Upper(base) = "EUR" /\ "EUR" \in DOMAIN rub_data.rates
       THEN [data EXCEPT !.rates["RUB"] = rub_data.rates["EUR"]]
       ELSE data
  ELSE data

\* line 21: the cached table is returned, nothing is asked
Cached(base) ==
  [ret |-> RetData(cache[base]), cache |-> cache, ts |-> cache_timestamps,
   now |-> now, reqs |-> <<>>, a |-> NotAskedA, b |-> NotAsked]

\* FetchFailed dropping the entry of the base that could not be refreshed
FetchFailed_Evicts(base, a) ==
  [ret |-> RetNone,
   cache |-> [x \in (DOMAIN cache) \ {base} |-> cache[x]],
   ts |-> [x \in (DOMAIN cache_timestamps) \ {base} |-> cache_timestamps[x]],
   now |-> now, reqs |-> <<"A">>, a |-> a, b |-> NotAsked]

\* FetchFailed asking Source A a second time before giving up
FetchFailed_Retries(base, a) ==
  [ret |-> RetNone, cache |-> cache, ts |-> cache_timestamps,
   now |-> now, reqs |-> <<"A", "A">>, a |-> a, b |-> NotAsked]

\* line 42-47: the request to Source A raised RequestException or
\* JSONDecodeError
FetchFailed(base, a) ==
  [ret |-> RetNone, cache |-> cache, ts |-> cache_timestamps,
   now |-> now, reqs |-> <<"A">>, a |-> a, b |-> NotAsked]

\* line 29 with a "rates" that is no mapping: TypeError, which no except
\* clause of get_exchange_rates catches
Raised(base, a) ==
  [ret |-> RetRaise, cache |-> cache, ts |-> cache_timestamps,
   now |-> now, reqs |-> <<"A">>, a |-> a, b |-> NotAsked]

\* Stored leaving the timestamp of an entry that already exists as it was
Stored_KeepsStamp(base, data, a, b) ==
  [ret |-> RetData(data),
   cache |-> Put(cache, base, data),
   ts |-> IF base \in DOMAIN cache_timestamps THEN cache_timestamps
          ELSE Put(cache_timestamps, base, now),
   now |-> now,
   reqs |-> IF AsksB(a.data) THEN <<"A", "B">> ELSE <<"A">>,
   a |-> a,
   b |-> IF AsksB(a.data) THEN b ELSE NotAsked]

\* Stored without the timestamp of line 38
Stored_NoStamp(base, data, a, b) ==
  [ret |-> RetData(data),
   cache |-> Put(cache, base, data),
   ts |-> cache_timestamps,
   now |-> now,
   reqs |-> IF AsksB(a.data) THEN <<"A", "B">> ELSE <<"A">>,
   a |-> a,
   b |-> IF AsksB(a.data) THEN b ELSE NotAsked]

\* line 37-40: the body is stored, stamped and returned
Stored(base, data, a, b) ==
  [ret |-> RetData(data),
   cache |-> Put(cache, base, data),
   ts |-> Put(cache_timestamps, base, now),
   now |-> now,
   reqs |-> IF AsksB(a.data) THEN <<"A", "B">> ELSE <<"A">>,
   a |-> a,
   b |-> IF AsksB(a.data) THEN b ELSE NotAsked]

\* get_exchange_rates as a function of the state and of what the sources
\* answer: the value returned, the new cache and timestamps, the clock when
\* the call returns and the requests made, in order.
get_exchange_rates(base, force, a, b) ==
  IF CacheHit(base, force) THEN Cached(base)
  ELSE IF a.kind \in {"neterr", "jsonerr"} THEN FetchFailed(base, a)
  ELSE IF a.data.kind = "badrates" THEN Raised(base, a)
  ELSE Stored(base, Reconcile(base, a.data, b), a, b)

\* SameCode without the upper-casing
SameCode_CaseSensitive(from, to) == from = to

\* line 80 / 115
SameCode(from, to) == Upper(from) = Upper(to)

\* Forced without the RUB rule
Forced_CallerOnly(from, to, force) == force

\* line 83-84 / 118-119
Forced(from, to, force) == force \/ "RUB" \in {Upper(from), Upper(to)}

\* ConvertResult returning the rate instead of the converted amount
ConvertResult_RateOnly(amount, to, ret) ==
  IF ret.kind = "raise" THEN RetRaise
  ELSE IF ret.kind = "none" \/ ret.data.kind # "table" THEN RetNone
  ELSE IF Upper(to) \notin DOMAIN ret.data.rates THEN RetNone
  ELSE RetNum(ret.data.rates[Upper(to)])

\* line 88-101: what convert makes of the fetched data
ConvertResult(amount, to, ret) ==
  IF ret.kind = "raise" THEN RetRaise
  ELSE IF ret.kind = "none" \/ ret.data.kind # "table" THEN RetNone
  ELSE IF Upper(to) \notin DOMAIN ret.data.rates THEN RetNone
  ELSE RetNum(amount * ret.data.rates[Upper(to)])

\* line 123-131
RateResult(to, ret) ==
  IF ret.kind = "raise" THEN RetRaise
  ELSE IF ret.kind = "none" \/ ret.data.kind # "table" THEN RetNone
  ELSE IF Upper(to) \notin DOMAIN ret.data.rates THEN RetNone
  ELSE RetNum(ret.data.rates[Upper(to)])

\* sorted() on the codes of the model (ASCII order)
CodeOrder == <<"EUR", "GBP", "RUB", "USD", "ZZZ", "usd">>
Rank(c) == CHOOSE i \in 1..Len(CodeOrder) : CodeOrder[i] = c
Count(s, c) == Cardinality({i \in 1..Len(s) : s[i] = c})
RECURSIVE SortedFrom(_, _)
SortedFrom(s, i) ==
  IF i > Len(CodeOrder) THEN <<>>
  ELSE [j \in 1..Count(s, CodeOrder[i]) |-> CodeOrder[i]] \o SortedFrom(s, i + 1)
Sorted(s) == SortedFrom(s, 1)

\* list(d.keys()): the keys in some order (the order does not survive sorted)
RECURSIVE KeysList(_)
KeysList(S) ==
  IF S = {} THEN <<>>
  ELSE LET c == CHOOSE x \in S : \A y \in S : Rank(x) <= Rank(y)
       IN <<c>> \o KeysList(S \ {c})

\* line 106-111
CurrenciesResult(base, ret) ==
  IF ret.kind = "raise" THEN RetRaise
  ELSE IF ret.kind = "none" \/ ret.data.kind # "table" THEN RetList(<<>>)
  ELSE RetList(Sorted(Append(KeysList(DOMAIN ret.data.rates), Upper(base))))

\* the call that has just returned, as its caller and the mocked sources saw
\* it: arguments, value returned, requests made and their answers, the key
\* get_exchange_rates was called with and whether the cache held a fresh
\* entry for that key when the call began, with the age of that entry (-1
\* when the key had none)
Idle == [op |-> "none", amount |-> 0, from |-> "", to |-> "", force |-> FALSE,
         key |-> "", fresh |-> FALSE, age |-> -1,
         ret |-> RetNone, reqs |-> <<>>, a |-> NotAskedA, b |-> NotAsked]

HadFresh(key) ==
  /\ key \in DOMAIN cache
  /\ key \in DOMAIN cache_timestamps
  /\ now - cache_timestamps[key] < cache_duration

AgeOf(key) ==
  IF key \in DOMAIN cache_timestamps THEN now - cache_timestamps[key] ELSE -1

\* What the two sources can answer to a call get_exchange_rates(base, force)
\* made in the current state: nothing is asked on a cache hit, Source B is
\* asked only when the code reaches line 30.
Outcomes(base, force) ==
  IF CacheHit(base, force) THEN {<<NotAskedA, NotAsked>>}
  ELSE IF nfetch >= MaxFetches THEN {}
  ELSE UNION { { <<a, b>> : b \in IF a.kind = "body" /\ AsksB(a.data)
                                  THEN BResponses ELSE {NotAsked} }
               : a \in AResponses }

PairOutcomes(from, to, force) ==
  IF SameCode(from, to) THEN {<<NotAskedA, NotAsked>>}
  ELSE Outcomes(Upper(from), Forced(from, to, force))

Init ==
  /\ cache = EmptyFn
  /\ cache_timestamps = EmptyFn
  /\ now = 0
  /\ nfetch = 0
  /\ last = Idle

\* the state after a call that went through get_exchange_rates
Apply(r, rec) ==
  /\ last = Idle
  /\ cache' = r.cache
  /\ cache_timestamps' = r.ts
  /\ now' = r.now
  /\ nfetch' = nfetch + Len(SelectSeq(r.reqs, LAMBDA q : q = "A"))
  /\ last' = rec

GetExchangeRates(base, force, a, b) ==
  LET r == get_exchange_rates(base, force, a, b) IN
  Apply(r, [op |-> "get_exchange_rates", amount |-> 0, from |-> base, to |-> "",
            force |-> force, key |-> base, fresh |-> HadFresh(base), age |-> AgeOf(base),
            ret |-> r.ret, reqs |-> r.reqs, a |-> r.a, b |-> r.b])

Convert(amount, from, to, force, a, b) ==
  IF SameCode(from, to)
  THEN /\ last = Idle
       /\ last' = [op |-> "convert", amount |-> amount, from |-> from, to |-> to,
                   force |-> force, key |-> "", fresh |-> FALSE, age |-> -1,
                   ret |-> RetNum(amount), reqs |-> <<>>,
                   a |-> NotAskedA, b |-> NotAsked]
       /\ UNCHANGED <<cache, cache_timestamps, now, nfetch>>
  ELSE LET r == get_exchange_rates(Upper(from), Forced(from, to, force), a, b) IN
       Apply(r, [op |-> "convert", amount |-> amount, from |-> from, to |-> to,
                 force |-> force, key |-> Upper(from), fresh |-> HadFresh(Upper(from)),
                 age |-> AgeOf(Upper(from)),
                 ret |-> ConvertResult(amount, to, r.ret),
                 reqs |-> r.reqs, a |-> r.a, b |-> r.b])

GetRate(from, to, force, a, b) ==
  IF SameCode(from, to)
  THEN /\ last = Idle
       /\ last' = [op |-> "get_rate", amount |-> 0, from |-> from, to |-> to,
                   force |-> force, key |-> "", fresh |-> FALSE, age |-> -1,
                   ret |-> RetNum(1), reqs |-> <<>>,
                   a |-> NotAskedA, b |-> NotAsked]
       /\ UNCHANGED <<cache, cache_timestamps, now, nfetch>>
  ELSE LET r == get_exchange_rates(Upper(from), Forced(from, to, force), a, b) IN
       Apply(r, [op |-> "get_rate", amount |-> 0, from |-> from, to |-> to,
                 force |-> force, key |-> Upper(from), fresh |-> HadFresh(Upper(from)),
                 age |-> AgeOf(Upper(from)),
                 ret |-> RateResult(to, r.ret),
                 reqs |-> r.reqs, a |-> r.a, b |-> r.b])

GetAvailableCurrencies(base, a, b) ==
  LET r == get_exchange_rates(Upper(base), FALSE, a, b) IN
  Apply(r, [op |-> "get_available_currencies", amount |-> 0, from |-> base, to |-> "",
            force |-> FALSE, key |-> Upper(base), fresh |-> HadFresh(Upper(base)),
            age |-> AgeOf(Upper(base)),
            ret |-> CurrenciesResult(base, r.ret),
            reqs |-> r.reqs, a |-> r.a, b |-> r.b])

\* ClearCache forgetting the timestamps
ClearCache_KeepsStamps ==
  /\ last = Idle
  /\ cache' = EmptyFn
  /\ last' = [Idle EXCEPT !.op = "clear_cache"]
  /\ UNCHANGED <<cache_timestamps, now, nfetch>>

ClearCache ==
  /\ last = Idle
  /\ cache' = EmptyFn
  /\ cache_timestamps' = EmptyFn
  /\ last' = [Idle EXCEPT !.op = "clear_cache"]
  /\ UNCHANGED <<now, nfetch>>

\* the caller takes the result of the call it made
Return ==
  /\ last # Idle
  /\ last' = Idle
  /\ UNCHANGED <<cache, cache_timestamps, now, nfetch>>

\* time passes between two calls: the caller waits a little less than the
\* freshness window, or exactly the freshness window.  Only ages matter to
\* the code, so the clock is left at rest while nothing is cached.
Waits == {cache_duration - 1, cache_duration}

Tick(d) ==
  /\ last = Idle
  /\ DOMAIN cache # {}
  /\ now + d <= MaxTime
  /\ now' = now + d
  /\ UNCHANGED <<cache, cache_timestamps, nfetch, last>>

Next ==
  \/ \E base \in Codes, force \in BOOLEAN : \E o \in Outcomes(base, force) :
       GetExchangeRates(base, force, o[1], o[2])
  \/ \E amount \in Amounts, p \in Pairs, force \in BOOLEAN :
       \E o \in PairOutcomes(p[1], p[2], force) :
         Convert(amount, p[1], p[2], force, o[1], o[2])
  \/ \E p \in Pairs, force \in BOOLEAN :
       \E o \in PairOutcomes(p[1], p[2], force) :
         GetRate(p[1], p[2], force, o[1], o[2])
  \/ \E base \in Codes : \E o \in Outcomes(Upper(base), FALSE) :
       GetAvailableCurrencies(base, o[1], o[2])
  \/ ClearCache
  \/ Return
  \/ \E d \in Waits : Tick(d)

Spec == Init /\ [][Next]_vars

\* ------------------------------------------------------------------ claims

\* C1: a non-forced get_exchange_rates(B) made while the cache holds an entry
\* for B younger than 5 minutes returns exactly the cached table, makes no
\* request to Source A or Source B and leaves the cache and its timestamps
\* unchanged.
C1_FreshEntryAnswers ==
  [][ \A B \in Codes :
        ( /\ last = Idle
          /\ last'.op = "get_exchange_rates"
          /\ last'.from = B
          /\ ~last'.force
          /\ B \in DOMAIN cache
          /\ B \in DOMAIN cache_timestamps
          /\ now - cache_timestamps[B] < cache_duration )
        => ( /\ last'.ret.kind = "data"
             /\ last'.ret.data = cache[B]
             /\ last'.reqs = <<>>
             /\ cache' = cache
             /\ cache_timestamps' = cache_timestamps ) ]_vars

\* a non-forced get_exchange_rates answered from an entry that is 4 minutes old
C1_Witness ==
  /\ last.op = "get_exchange_rates"
  /\ ~last.force
  /\ last.fresh
  /\ last.reqs = <<>>
  /\ last.from \in DOMAIN cache_timestamps
  /\ now - cache_timestamps[last.from] = cache_duration - 1
  /\ last.ret.data = cache[last.from]

\* C2 as stated: a convert or get_rate with from # to and RUB on either side
\* requests Source A and attempts Source B.
C2_BothSourcesConsulted ==
  ( /\ last.op \in {"convert", "get_rate"}
    /\ Upper(last.from) # Upper(last.to)
    /\ "RUB" \in {Upper(last.from), Upper(last.to)} )
  => ( /\ \E i \in 1..Len(last.reqs) : last.reqs[i] = "A"
       /\ \E i \in 1..Len(last.reqs) : last.reqs[i] = "B" )

\* C2 amended: a convert or get_rate with from # to and RUB on either side
\* ignores a fresh entry and requests Source A first, whatever force_update
\* was passed; Source B is attempted exactly when Source A answers with a
\* rates table that contains RUB.
C2_SourceAThenMaybeB ==
  ( /\ last.op \in {"convert", "get_rate"}
    /\ Upper(last.from) # Upper(last.to)
    /\ "RUB" \in {Upper(last.from), Upper(last.to)} )
  => ( /\ Len(last.reqs) >= 1
       /\ last.reqs[1] = "A"
       /\ (\E i \in 1..Len(last.reqs) : last.reqs[i] = "B")
            <=> ( /\ last.a.kind = "body"
                  /\ last.a.data.kind = "table"
                  /\ "RUB" \in DOMAIN last.a.data.rates ) )

\* a non-forced conversion to RUB made over a fresh entry asks both sources
C2_Witness ==
  /\ last.op = "convert"
  /\ last.to = "RUB"
  /\ last.from = "usd"
  /\ ~last.force
  /\ last.fresh
  /\ last.reqs = <<"A", "B">>

\* C3: when the request to Source A fails with a network error,
\* get_exchange_rates returns None and the cache and its timestamps are what
\* they were before the call; an existing entry is not returned instead.
C3_NetworkErrorLeavesCache ==
  [][ ( /\ last = Idle
        /\ last'.op = "get_exchange_rates"
        /\ last'.a.kind = "neterr" )
      => ( /\ last'.ret.kind = "none"
           /\ cache' = cache
           /\ cache_timestamps' = cache_timestamps ) ]_vars

\* a forced get_exchange_rates over a fresh entry meets a network error
C3_Witness ==
  /\ last.op = "get_exchange_rates"
  /\ last.a.kind = "neterr"
  /\ last.force
  /\ last.fresh
  /\ last.from \in DOMAIN cache
  /\ last.ret.kind = "none"

\* C4 as stated: when Source A's body lacks the rates field,
\* get_exchange_rates returns None and stores nothing, so that the cache and
\* its timestamps are unchanged and the next call has to ask Source A again.
C4_MissingRatesIsFailure ==
  [][ ( /\ last = Idle
        /\ last'.op = "get_exchange_rates"
        /\ last'.a.kind = "body"
        /\ last'.a.data.kind = "norates" )
      => ( /\ last'.ret.kind = "none"
           /\ cache' = cache
           /\ cache_timestamps' = cache_timestamps ) ]_vars

\* C5: when base USD (EUR) is fetched, Source A's table contains RUB and
\* Source B's patch has an entry for the base, the table cached and returned
\* has RUB equal to the patch value Value / Nominal and every other rate as
\* Source A gave it.
C5_PatchOverwritesRUB ==
  ( /\ last.reqs = <<"A", "B">>
    /\ last.key \in {"USD", "EUR"}
    /\ get_rub_rate_from_cbr(last.b).some
    /\ last.key \in DOMAIN get_rub_rate_from_cbr(last.b).rates )
  => ( /\ last.key \in DOMAIN cache
       /\ cache[last.key].kind = "table"
       /\ DOMAIN cache[last.key].rates = DOMAIN last.a.data.rates
       /\ cache[last.key].rates["RUB"] =
            last.b.valute[last.key].Value \div last.b.valute[last.key].Nominal
       /\ \A c \in (DOMAIN last.a.data.rates) \ {"RUB"} :
            cache[last.key].rates[c] = last.a.data.rates[c]
       /\ last.op = "get_exchange_rates"
            => (last.ret.kind = "data" /\ last.ret.data = cache[last.key]) )

\* get_exchange_rates("EUR") returns Source A's table with RUB patched to 99
C5_Witness ==
  /\ last.op = "get_exchange_rates"
  /\ last.from = "EUR"
  /\ last.reqs = <<"A", "B">>
  /\ last.a.data.rates["RUB"] = 95
  /\ last.ret.data.rates = [EUR |-> 2, RUB |-> 99]
  /\ cache["EUR"].rates = [EUR |-> 2, RUB |-> 99]

\* C6: when Source A succeeds and Source B is unavailable or its patch has no
\* entry for the base, get_exchange_rates does not fail: Source A's table is
\* returned unmodified and stored in the cache, stamped with the time of the
\* call.
C6_SourceBFailureIsHarmless ==
  ( /\ last.reqs = <<"A", "B">>
    /\ \/ ~get_rub_rate_from_cbr(last.b).some
       \/ Upper(last.key) \notin DOMAIN get_rub_rate_from_cbr(last.b).rates )
  => ( /\ last.key \in DOMAIN cache
       /\ cache[last.key] = last.a.data
       /\ last.key \in DOMAIN cache_timestamps
       /\ cache_timestamps[last.key] = now
       /\ last.op = "get_exchange_rates"
            => (last.ret.kind = "data" /\ last.ret.data = last.a.data) )

\* get_exchange_rates("USD") over a stale entry while Source B is down
C6_Witness ==
  /\ last.op = "get_exchange_rates"
  /\ last.from = "USD"
  /\ last.reqs = <<"A", "B">>
  /\ last.b.kind = "neterr"
  /\ now = cache_duration
  /\ cache_timestamps["USD"] = now
  /\ last.ret.data.rates = RatesA1

\* C7: convert(x, C, D, force) with C and D equal case-insensitively returns
\* x, makes no request and leaves the cache and its timestamps unchanged.
C7_ConvertSameCode ==
  [][ ( /\ last = Idle
        /\ last'.op = "convert"
        /\ Upper(last'.from) = Upper(last'.to) )
      => ( /\ last'.ret.kind = "num"
           /\ last'.ret.num = last'.amount
           /\ last'.reqs = <<>>
           /\ cache' = cache
           /\ cache_timestamps' = cache_timestamps ) ]_vars

\* a forced convert("usd", "USD") over a non-empty cache
C7_Witness ==
  /\ last.op = "convert"
  /\ last.from = "usd"
  /\ last.to = "USD"
  /\ last.force
  /\ DOMAIN cache # {}
  /\ last.ret.num = last.amount

\* C8: get_rate(C, D, force) with C and D equal case-insensitively returns
\* exactly 1, makes no request and leaves the cache and its timestamps
\* unchanged, also for RUB and with force_update.
C8_RateSameCode ==
  [][ ( /\ last = Idle
        /\ last'.op = "get_rate"
        /\ Upper(last'.from) = Upper(last'.to) )
      => ( /\ last'.ret.kind = "num"
           /\ last'.ret.num = 1
           /\ last'.reqs = <<>>
           /\ cache' = cache
           /\ cache_timestamps' = cache_timestamps ) ]_vars

\* a forced get_rate("RUB", "RUB") over a non-empty cache
C8_Witness ==
  /\ last.op = "get_rate"
  /\ last.from = "RUB"
  /\ last.to = "RUB"
  /\ last.force
  /\ DOMAIN cache # {}
  /\ last.ret.num = 1

\* C9: for from # to, when the table obtained for from (cached and fresh, or
\* just fetched and patched) contains to, convert returns amount * rates[to]
\* and get_rate returns rates[to], rates being the table the cache holds for
\* from when the call returns.
C9_ResultFromCachedTable ==
  ( /\ last.op \in {"convert", "get_rate"}
    /\ Upper(last.from) # Upper(last.to)
    /\ \/ last.reqs = <<>>
       \/ (last.a.kind = "body" /\ last.a.data.kind = "table")
    /\ Upper(last.from) \in DOMAIN cache
    /\ cache[Upper(last.from)].kind = "table"
    /\ Upper(last.to) \in DOMAIN cache[Upper(last.from)].rates )
  => ( /\ last.ret.kind = "num"
       /\ last.op = "convert" =>
            last.ret.num = last.amount * cache[Upper(last.from)].rates[Upper(last.to)]
       /\ last.op = "get_rate" =>
            last.ret.num = cache[Upper(last.from)].rates[Upper(last.to)] )

\* convert(3, "usd", "RUB") returns 3 times the patched rate 91
C9_Witness ==
  /\ last.op = "convert"
  /\ last.from = "usd"
  /\ last.to = "RUB"
  /\ last.amount = 3
  /\ last.reqs = <<"A", "B">>
  /\ cache["USD"].rates["RUB"] = 91
  /\ last.ret.num = 273

\* C10 as stated: for from # to, convert and get_rate never raise, return None
\* exactly when no table was obtained for from or the table lacks to, and a
\* table fetched successfully is in the cache also when it lacks to.
C10_NoneExactlyOnFailure ==
  ( /\ last.op \in {"convert", "get_rate"}
    /\ Upper(last.from) # Upper(last.to) )
  => LET fetched == last.a.kind = "body" /\ last.a.data.kind = "table"
         obtained == \/ fetched
                     \/ /\ last.reqs = <<>>
                        /\ cache[Upper(last.from)].kind = "table"
     IN /\ last.ret.kind # "raise"
        /\ (last.ret.kind = "none")
             <=> ( \/ ~obtained
                   \/ Upper(last.to) \notin DOMAIN cache[Upper(last.from)].rates )
        /\ fetched =>
             ( /\ Upper(last.from) \in DOMAIN cache
               /\ cache[Upper(last.from)].kind = "table"
               /\ \A c \in (DOMAIN last.a.data.rates) \ {"RUB"} :
                    /\ c \in DOMAIN cache[Upper(last.from)].rates
                    /\ cache[Upper(last.from)].rates[c] = last.a.data.rates[c] )

\* C11 as stated: get_available_currencies(B) never fails; when the table for
\* B is obtained it returns the keys of the rates and B itself, no code
\* twice, in ascending order, and when the fetch fails it returns the empty
\* list.
C11_SortedDeduplicatedCodes ==
  (last.op = "get_available_currencies")
  => LET obtained == \/ last.a.kind = "body" /\ last.a.data.kind = "table"
                     \/ /\ last.reqs = <<>>
                        /\ cache[last.key].kind = "table"
         l == last.ret.list
     IN /\ last.ret.kind = "list"
        /\ obtained =>
             ( /\ {l[i] : i \in 1..Len(l)} =
                    (DOMAIN cache[last.key].rates) \cup {Upper(last.from)}
               /\ \A i \in 1..Len(l), j \in 1..Len(l) :
                    i < j => Rank(l[i]) < Rank(l[j]) )
        /\ ~obtained => l = <<>>

\* C12 as stated: after clear_cache the cache holds no entry and no timestamp,
\* and the next query of a base (from # to) requests both Source A and
\* Source B.
C12_ClearForcesBothSources ==
  [][ /\ last'.op = "clear_cache"
           => (cache' = EmptyFn /\ cache_timestamps' = EmptyFn)
      /\ ( /\ last = Idle
           /\ cache = EmptyFn
           /\ cache_timestamps = EmptyFn
           /\ last'.op \in {"get_exchange_rates", "convert", "get_rate",
                            "get_available_currencies"}
           /\ last'.key # "" )
         => ( /\ \E i \in 1..Len(last'.reqs) : last'.reqs[i] = "A"
              /\ \E i \in 1..Len(last'.reqs) : last'.reqs[i] = "B" ) ]_vars

\* C12 amended: after clear_cache the cache holds no entry and no timestamp,
\* and the next query of a base (from # to) is not answered from a cached
\* table: it requests Source A, and Source B exactly when Source A answers
\* with a rates table that contains RUB.
C12_ClearForcesRefetch ==
  [][ /\ last'.op = "clear_cache"
           => (cache' = EmptyFn /\ cache_timestamps' = EmptyFn)
      /\ ( /\ last = Idle
           /\ cache = EmptyFn
           /\ cache_timestamps = EmptyFn
           /\ last'.op \in {"get_exchange_rates", "convert", "get_rate",
                            "get_available_currencies"}
           /\ last'.key # "" )
         => ( /\ Len(last'.reqs) >= 1
              /\ last'.reqs[1] = "A"
              /\ (\E i \in 1..Len(last'.reqs) : last'.reqs[i] = "B")
                   <=> ( /\ last'.a.kind = "body"
                         /\ last'.a.data.kind = "table"
                         /\ "RUB" \in DOMAIN last'.a.data.rates ) ) ]_vars

\* a non-forced query at minute 4 finds no entry although one was stored at
\* minute 0 (the clock only moves over a non-empty cache) and no other key is
\* cached: clear_cache came in between, and both sources are asked again
C12_Witness ==
  /\ last.op \in {"get_exchange_rates", "get_available_currencies"}
  /\ ~last.force
  /\ last.age = -1
  /\ now = cache_duration - 1
  /\ nfetch = 2
  /\ DOMAIN cache = {last.key}
  /\ cache_timestamps[last.key] = now
  /\ last.reqs = <<"A", "B">>

\* C13 as stated: every key of the cache and of the timestamps is an
\* upper-case code, so that codes differing only in case share one entry,
\* also when get_exchange_rates is called directly with a lower-case base.
C13_KeysAreUpperCase ==
  /\ \A k \in DOMAIN cache : Upper(k) = k
  /\ \A k \in DOMAIN cache_timestamps : Upper(k) = k

\* C14 as stated: a call requests Source B only if Source A's table contains
\* RUB and the base is USD or EUR; for any other base Source B is not asked.
C14_SourceBOnlyForTrackedBase ==
  (\E i \in 1..Len(last.reqs) : last.reqs[i] = "B")
  => ( /\ last.a.kind = "body"
       /\ last.a.data.kind = "table"
       /\ "RUB" \in DOMAIN last.a.data.rates
       /\ Upper(last.key) \in {"USD", "EUR"} )

\* C15: freshness is the strict test now - fetched_at < 5 minutes: a non-forced
\* get_exchange_rates(B) called with no entry for B, or with an entry that is
\* 5 minutes old or older (exactly 5 included), requests Source A, and when the
\* call succeeds the entry for B is the new table stamped with the current time.
C15_StaleOrMissingRefetches ==
  [][ \A B \in Codes :
        ( /\ last = Idle
          /\ last'.op = "get_exchange_rates"
          /\ last'.from = B
          /\ ~last'.force
          /\ \/ B \notin DOMAIN cache
             \/ B \notin DOMAIN cache_timestamps
             \/ now - cache_timestamps[B] >= cache_duration )
        => ( /\ last'.reqs # <<>>
             /\ last'.reqs[1] = "A"
             /\ last'.ret.kind = "data"
                => ( /\ B \in DOMAIN cache'
                     /\ B \in DOMAIN cache_timestamps'
                     /\ cache'[B] = last'.ret.data
                     /\ cache'[B] = Reconcile(B, last'.a.data, last'.b)
                     /\ cache_timestamps'[B] = now' ) ) ]_vars

\* a non-forced get_exchange_rates over an entry exactly 5 minutes old fetched
\* and stored a table different from Source A's other answer
C15_Witness ==
  /\ last.op = "get_exchange_rates"
  /\ ~last.force
  /\ last.age = cache_duration
  /\ last.reqs # <<>>
  /\ last.ret.kind = "data"
  /\ last.a.data = TableBody(RatesA2)
  /\ cache[last.key] = last.ret.data
  /\ cache_timestamps[last.key] = now

\* C16: a successful forced fetch for base B (force_update true, or forced by
\* RUB in convert/get_rate) replaces the entry for B by the fetched table and
\* stamps it with the time of the fetch; returning from a call and waiting
\* change neither map; and a non-forced get_exchange_rates(B) made while that
\* stamp is less than 5 minutes old returns the entry, the table of the forced
\* fetch, with no request to either source.
C16_ForcedFetchReplacesEntry ==
  [][ /\ ( /\ last = Idle
           /\ \/ last'.op = "get_exchange_rates" /\ last'.force
              \/ /\ last'.op \in {"convert", "get_rate"}
                 /\ last'.key # ""
                 /\ Forced(last'.from, last'.to, last'.force)
           /\ last'.a.kind = "body"
           /\ last'.a.data.kind = "table" )
         => ( /\ last'.reqs # <<>>
              /\ last'.key \in DOMAIN cache'
              /\ last'.key \in DOMAIN cache_timestamps'
              /\ cache'[last'.key] = Reconcile(last'.key, last'.a.data, last'.b)
              /\ cache_timestamps'[last'.key] = now' )
      /\ last' = Idle => (cache' = cache /\ cache_timestamps' = cache_timestamps)
      /\ \A B \in Codes :
           ( /\ last = Idle
             /\ last'.op = "get_exchange_rates"
             /\ last'.from = B
             /\ ~last'.force
             /\ B \in DOMAIN cache
             /\ B \in DOMAIN cache_timestamps
             /\ now - cache_timestamps[B] < cache_duration )
           => ( /\ last'.ret = RetData(cache[B])
                /\ last'.reqs = <<>> ) ]_vars

\* a conversion to RUB, forced by RUB alone, fetched over an entry 4 minutes
\* old and restamped it
C16_Witness ==
  /\ last.op = "convert"
  /\ ~last.force
  /\ last.to = "RUB"
  /\ last.fresh
  /\ last.age = cache_duration - 1
  /\ last.a.kind = "body"
  /\ last.a.data.kind = "table"
  /\ cache[last.key] = Reconcile(last.key, last.a.data, last.b)
  /\ cache_timestamps[last.key] = now

\* C17: for every base other than USD and EUR (RUB included) the table that a
\* successful fetch caches, and that get_exchange_rates returns, is exactly
\* Source A's table, whatever Source B answered.
C17_OtherBaseKeepsSourceA ==
  ( /\ last.reqs # <<>>
    /\ last.a.kind = "body"
    /\ last.a.data.kind = "table"
    /\ Upper(last.key) \notin {"USD", "EUR"} )
  => ( /\ last.key \in DOMAIN cache
       /\ cache[last.key] = last.a.data
       /\ last.op = "get_exchange_rates" => last.ret = RetData(last.a.data) )

\* a fetch for base RUB whose table holds RUB, while Source B answered with
\* usable entries for USD and for EUR
C17_Witness ==
  /\ last.op = "get_exchange_rates"
  /\ last.key = "RUB"
  /\ last.reqs = <<"A", "B">>
  /\ last.a.data = TableBody(RatesA1)
  /\ last.b = [kind |-> "valute", valute |-> [USD |-> ValUSD, EUR |-> ValEUR]]
  /\ cache["RUB"] = TableBody(RatesA1)
  /\ last.ret = RetData(TableBody(RatesA1))

\* C18: one call makes at most one request to Source A and at most one to
\* Source B, in that order; Source B is requested only when the Source A
\* request of the same call gave a body, and never when it failed.
C18_SequentialNoRetry ==
  /\ last.reqs \in {<<>>, <<"A">>, <<"A", "B">>}
  /\ last.reqs = <<>> <=> last.a = NotAskedA
  /\ last.reqs = <<"A", "B">> <=> last.b # NotAsked
  /\ last.reqs = <<"A", "B">> => (last.a.kind = "body" /\ last.a.data.kind = "table")
  /\ last.a.kind \in {"neterr", "jsonerr"} => last.reqs = <<"A">>

\* a call that asked Source A, then Source B, and got a failure from Source B
C18_Witness ==
  /\ last.op = "get_exchange_rates"
  /\ last.reqs = <<"A", "B">>
  /\ last.a.kind = "body"
  /\ last.b.kind = "neterr"
  /\ nfetch = 1

\* C19: in every reachable state the table map and the timestamp map have the
\* same keys: a base has a cached table exactly when it has a fetch timestamp.
C19_SameKeys ==
  DOMAIN cache = DOMAIN cache_timestamps

\* a base was cached by one call and a later call for another base failed at
\* Source A, leaving one key in both maps
C19_Witness ==
  /\ last.a.kind \in {"neterr", "jsonerr"}
  /\ last.ret.kind = "none"
  /\ nfetch = 2
  /\ DOMAIN cache # {}
  /\ last.key \notin DOMAIN cache
  /\ DOMAIN cache_timestamps # {}

TypeOK ==
  /\ DOMAIN cache \subseteq Codes
  /\ now \in 0..MaxTime
  /\ nfetch \in 0..MaxFetches
====
